---- MODULE Spec2Model ----
(***************************************************************************)
(* Model of h5coro.H5Coro (src/h5coro/h5coro.py): the byte-range cache of  *)
(* ioRequest, the request table of readDatasets and the metadata-table     *)
(* scan of listGroup.                                                      *)
(*                                                                         *)
(* Python values are modelled as follows.  A bytes object / memoryview is  *)
(* a sequence of byte values.  A str is a sequence of one-character        *)
(* strings, so that startswith, split and indexing are computed.  A dict   *)
(* is a sequence of <<key, value>> pairs in insertion order with unique    *)
(* keys.  The 64-bit all-ones word of cacheLineMask is scaled to 16 bits.  *)
(***************************************************************************)
EXTENDS Integers, Sequences, FiniteSets, TLC

VARIABLES
    cacheLineSize,   \* self.cacheLineSize
    baseAddress,     \* self.baseAddress
    cache,           \* self.cache : line start -> line bytes
    driverCalls,     \* history: every <<offset, length>> passed to driver.read -> count
    onlyCached,      \* history: every ioRequest so far took the caching branch
    lastIo,          \* history: the last ioRequest call, its result and its driver calls
    lastPrefetch,    \* history: the last call that took the prefetch branch
    ioCount          \* number of ioRequest calls made so far

ioVars == <<cacheLineSize, baseAddress, cache, driverCalls, onlyCached,
            lastIo, lastPrefetch, ioCount>>

VARIABLES
    dsCall,          \* history: the arguments of the readDatasets call
    dataset_table,   \* readDatasets: dataset_table, a dict in insertion order
    max_workers,     \* readDatasets: width of the ThreadPoolExecutor
    futures,         \* readDatasets: the submitted tasks and their states, in order
    promiseKeys,     \* readDatasets: dataset_table.keys() handed to H5Promise
    dsPc             \* position of the caller of readDatasets

dsVars == <<dsCall, dataset_table, max_workers, futures, promiseKeys, dsPc>>

VARIABLES
    resource,        \* the records of the container that is read: path -> isattribute
    metadataTable,   \* self.metadataTable: path -> isattribute
    lastList         \* history: the last listGroup call and what it returned

grpVars == <<resource, metadataTable, lastList>>

VARIABLES
    tasks            \* the ioRequest call each concurrent read task is in: its locals and position

raceVars == <<tasks>>

VARIABLES
    keyOrder,        \* the keys of self.metadataTable in insertion order
    top,             \* the listGroup call of the caller: its locals and position
    insp,            \* the inspectThread tasks of that call, in submission order
    inflight         \* the paths that read tasks still in flight are about to record

inspVars == <<keyOrder, top, insp, inflight>>

vars == <<ioVars, dsVars, grpVars, raceVars, inspVars>>

\* ------------------------------------------------------------------ bounds
MaxPos  == 4      \* logical offsets 0..MaxPos
MaxSize == 4      \* request sizes 0..MaxSize
MaxBase == 1      \* base addresses 0..MaxBase
MaxIo   == 2      \* ioRequest calls per handle
MaxReq  == 3      \* entries of the list given to readDatasets
MaxRow  == 1      \* start rows 0..MaxRow, row counts 1..MaxRow
MaxTaskPos  == 2  \* logical offsets 0..MaxTaskPos of concurrent requests
MaxTaskSize == 3  \* sizes 0..MaxTaskSize of concurrent requests

LineSizes == {2, 4}          \* power-of-two cache line sizes (scaled from 0x400000)
WordMax   == 65535           \* 0xFFFFFFFFFFFFFFFF scaled to 16 bits

Min(a, b) == IF a < b THEN a ELSE b

\* ------------------------------------------------------------------ driver
\* The byte the backend resource holds at an absolute offset.
FileByte(a) == (a * 7 + 3) % 256

\* driver.read(offset, length): exactly `length` bytes starting at `offset`.
DriverRead(offset, length) == [i \in 1..length |-> FileByte(offset + i - 1)]

\* ------------------------------------------------------------------ python helpers
\* s[a:b] for 0 <= a, clamped to the length of s as a Python slice is.
PySlice(s, a, b) == SubSeq(s, a + 1, Min(b, Len(s)))

\* x & y on non-negative integers.
RECURSIVE BitAnd(_, _)
BitAnd(x, y) ==
    IF x = 0 \/ y = 0 THEN 0
    ELSE (x % 2) * (y % 2) + 2 * BitAnd(x \div 2, y \div 2)

\* b''.join(blocks)
RECURSIVE Join(_)
Join(blocks) == IF blocks = <<>> THEN <<>> ELSE Head(blocks) \o Join(Tail(blocks))

\* d[k] = v on a dict held as a function.
DictPut(d, k, v) == [x \in DOMAIN d \cup {k} |-> IF x = k THEN v ELSE d[x]]

\* ------------------------------------------------------------------ ioRequest
\* line 99: self.cacheLineMask
cacheLineMask(lineSize) == WordMax - (lineSize - 1)

CacheLineUnaligned(pos, base, lineSize) == pos + base

\* line 225/245: cache_line = (pos + self.baseAddress) & self.cacheLineMask
CacheLine(pos, base, lineSize) == BitAnd(pos + base, cacheLineMask(lineSize))

MissAlways(c, cache_line) == TRUE

\* line 227: `cache_line not in self.cache`
Miss(c, cache_line) == cache_line \notin DOMAIN c

\* line 230: start_index
StartIndex(pos, base, cache_line) == (pos + base) - cache_line

StopIndexNoClamp(start_index, data_to_read, lineSize) == start_index + data_to_read

\* line 231: stop_index
StopIndex(start_index, data_to_read, lineSize) == Min(start_index + data_to_read, lineSize)

\* The `while data_to_read > 0` loop of the caching branch.
RECURSIVE CachedLoop(_, _, _, _, _, _, _)
CachedLoop(c, lineSize, base, pos, data_to_read, data_blocks, calls) ==
    IF data_to_read > 0
    THEN LET cache_line  == CacheLine(pos, base, lineSize)
             miss        == Miss(c, cache_line)
             c1          == IF miss
                            THEN DictPut(c, cache_line, DriverRead(cache_line, lineSize))
                            ELSE c
             calls1      == IF miss THEN Append(calls, <<cache_line, lineSize>>) ELSE calls
             start_index == StartIndex(pos, base, cache_line)
             stop_index  == StopIndex(start_index, data_to_read, lineSize)
             data_read   == stop_index - start_index
         IN  CachedLoop(c1, lineSize, base, pos + data_read, data_to_read - data_read,
                        Append(data_blocks, PySlice(c1[cache_line], start_index, stop_index)),
                        calls1)
    ELSE [cache |-> c, calls |-> calls,
          data  |-> IF Len(data_blocks) = 1 THEN data_blocks[1] ELSE Join(data_blocks)]

BlockSizeNoWrap(size, lineSize) == size + (lineSize - (size % lineSize))

\* line 244: block_size, size aligned up to a cache line boundary.
BlockSize(size, lineSize) == size + ((lineSize - (size % lineSize)) % lineSize)

PrefetchLineFirst(data_block, data_index, lineSize) == PySlice(data_block, 0, lineSize)

\* line 250: data_block[data_index:data_index+self.cacheLineSize]
PrefetchLine(data_block, data_index, lineSize) ==
    PySlice(data_block, data_index, data_index + lineSize)

\* The `while data_index < block_size` loop of the prefetch branch.
RECURSIVE PrefetchLoop(_, _, _, _, _, _)
PrefetchLoop(c, lineSize, data_block, block_size, cache_line, data_index) ==
    IF data_index < block_size
    THEN PrefetchLoop(DictPut(c, cache_line, PrefetchLine(data_block, data_index, lineSize)),
                      lineSize, data_block, block_size,
                      cache_line + lineSize, data_index + lineSize)
    ELSE c

NoData == <<-1>>   \* Python None

\* The prefetch branch (lines 243-253).
PrefetchBranch(c, lineSize, base, pos, size) ==
    LET block_size == BlockSize(size, lineSize)
        cache_line == CacheLine(pos, base, lineSize)
        data_block == DriverRead(cache_line, block_size)
    IN  [cache |-> PrefetchLoop(c, lineSize, data_block, block_size, cache_line, 0),
         calls |-> << <<cache_line, block_size>> >>,
         data  |-> NoData]

\* The direct branch (lines 254-256).
DirectBranch(c, base, pos, size) ==
    [cache |-> c,
     calls |-> << <<pos + base, size>> >>,
     data  |-> DriverRead(pos + base, size)]

ioRequestDirectThroughCache(c, lineSize, base, pos, size, caching, prefetch) ==
    IF caching \/ ~prefetch
    THEN CachedLoop(c, lineSize, base, pos, size, <<>>, <<>>)
    ELSE PrefetchBranch(c, lineSize, base, pos, size)

\* ioRequest(pos, size, caching, prefetch) on cache c: the returned value, the
\* cache afterwards and the driver calls made, in order.
ioRequest(c, lineSize, base, pos, size, caching, prefetch) ==
    IF caching
    THEN CachedLoop(c, lineSize, base, pos, size, <<>>, <<>>)
    ELSE IF prefetch
    THEN PrefetchBranch(c, lineSize, base, pos, size)
    ELSE DirectBranch(c, base, pos, size)

\* ------------------------------------------------------------------ cache handle
\* Count the driver calls of one ioRequest into the history bag.
RECURSIVE CountCalls(_, _)
CountCalls(bag, calls) ==
    IF calls = <<>> THEN bag
    ELSE LET k == Head(calls)
         IN  CountCalls(DictPut(bag, k, IF k \in DOMAIN bag THEN bag[k] + 1 ELSE 1),
                        Tail(calls))

NoIo == [pos |-> 0, size |-> 0, caching |-> FALSE, prefetch |-> FALSE,
         data |-> NoData, calls |-> <<>>, before |-> <<>>]

\* H5Coro.__init__: empty cache; cacheLineSize is the constructor argument,
\* baseAddress is what readSuperblock left on the handle.
InitCache ==
    /\ cacheLineSize \in LineSizes
    /\ baseAddress \in 0..MaxBase
    /\ cache = <<>>
    /\ driverCalls = <<>>
    /\ onlyCached = TRUE
    /\ lastIo = NoIo
    /\ lastPrefetch = NoIo
    /\ ioCount = 0

\* One call of ioRequest(pos, size, caching, prefetch) on the handle.
IoCall(pos, size, caching, prefetch) ==
    /\ ioCount < MaxIo
    /\ \E r \in {ioRequest(cache, cacheLineSize, baseAddress, pos, size, caching, prefetch)} :
         \E rec \in {[pos |-> pos, size |-> size, caching |-> caching, prefetch |-> prefetch,
                      data |-> r.data, calls |-> r.calls, before |-> cache]} :
           /\ cache' = r.cache
           /\ driverCalls' = CountCalls(driverCalls, r.calls)
           /\ onlyCached' = (onlyCached /\ caching)
           /\ lastIo' = rec
           /\ lastPrefetch' = IF ~caching /\ prefetch THEN rec ELSE lastPrefetch
    /\ ioCount' = ioCount + 1
    /\ UNCHANGED <<cacheLineSize, baseAddress, dsVars, grpVars, raceVars, inspVars>>

CachedRead ==
    \E pos \in 0..MaxPos, size \in 0..MaxSize : IoCall(pos, size, TRUE, FALSE)

CachedReadPrefetchFlag ==
    \E pos \in 0..MaxPos, size \in 0..MaxSize : IoCall(pos, size, TRUE, TRUE)

Prefetch ==
    \E pos \in 0..MaxPos, size \in 0..MaxSize : IoCall(pos, size, FALSE, TRUE)

DirectRead ==
    \E pos \in 0..MaxPos, size \in 0..MaxSize : IoCall(pos, size, FALSE, FALSE)

NextCache == CachedRead \/ CachedReadPrefetchFlag \/ Prefetch \/ DirectRead

\* ------------------------------------------------------------------ readDatasets
ENABLE_ATTRIBUTES_DEFAULT == FALSE
EARLY_EXIT_DEFAULT        == TRUE
META_ONLY_DEFAULT         == FALSE
BLOCK_DEFAULT             == TRUE
ALL_ROWS                  == -1     \* H5Dataset.ALL_ROWS

\* Paths are Python strings: sequences of characters.
PathA == <<"g", "/", "a">>
PathB == <<"g", "/", "b">>
PathC == <<"g", "/", "c">>
DatasetNames == {PathA, PathB, PathC}

\* The paths whose parse raises in the resource that is read.
BadPaths == {PathC}

\* An entry of the `datasets` argument: a str, or a dict with the keys
\* "dataset", "startrow", "numrows".
StrRequest(path) == [isStr |-> TRUE, dataset |-> path, startrow |-> 0, numrows |-> 0]
DictRequest(path, startrow, numrows) ==
    [isStr |-> FALSE, dataset |-> path, startrow |-> startrow, numrows |-> numrows]

Requests ==
    {StrRequest(p) : p \in DatasetNames}
    \cup {DictRequest(p, s, n) : p \in DatasetNames, s \in 0..MaxRow, n \in 1..MaxRow}

RequestLists == UNION {[1..n -> Requests] : n \in 0..MaxReq}

\* d[k] = v on a dict held in insertion order: an existing key keeps its
\* position and takes the new value, a new key is appended.
OrderedPutFirstWins(d, k, v) ==
    IF \E i \in DOMAIN d : d[i][1] = k THEN d ELSE Append(d, <<k, v>>)

OrderedPut(d, k, v) ==
    IF \E i \in DOMAIN d : d[i][1] = k
    THEN [i \in DOMAIN d |-> IF d[i][1] = k THEN <<k, v>> ELSE d[i]]
    ELSE Append(d, <<k, v>>)

StrSpecNoRows(dataset) == [dataset |-> dataset, startrow |-> 0, numrows |-> 0]

\* line 123: the spec a str request is normalized to.
StrSpec(dataset) == [dataset |-> dataset, startrow |-> 0, numrows |-> ALL_ROWS]

\* line 125: a dict request is stored as it is.
DictSpec(dataset) ==
    [dataset |-> dataset.dataset, startrow |-> dataset.startrow, numrows |-> dataset.numrows]

\* lines 120-125: `for dataset in datasets` building dataset_table.
RECURSIVE MakeTable(_, _)
MakeTable(table, datasets) ==
    IF datasets = <<>> THEN table
    ELSE LET dataset == Head(datasets)
         IN  MakeTable(IF dataset.isStr
                       THEN OrderedPut(table, dataset.dataset, StrSpec(dataset.dataset))
                       ELSE OrderedPut(table, dataset.dataset, DictSpec(dataset)),
                       Tail(datasets))

\* The arguments of one H5Dataset.factory task.
Task(dataset, earlyExit, metaOnly, enableAttributes) ==
    [dataset |-> dataset.dataset, startrow |-> dataset.startrow, numrows |-> dataset.numrows,
     earlyExit |-> earlyExit, metaOnly |-> metaOnly, enableAttributes |-> enableAttributes]

SubmitPerRequest(datasets, table, earlyExit, metaOnly, enableAttributes) ==
    [i \in DOMAIN datasets |->
        [task  |-> Task(IF datasets[i].isStr THEN StrSpec(datasets[i].dataset)
                        ELSE DictSpec(datasets[i]),
                        earlyExit, metaOnly, enableAttributes),
         state |-> "pending"]]

\* line 129: one executor.submit per value of dataset_table, in order.
Submit(datasets, table, earlyExit, metaOnly, enableAttributes) ==
    [i \in DOMAIN table |->
        [task  |-> Task(table[i][2], earlyExit, metaOnly, enableAttributes),
         state |-> "pending"]]

\* dataset_table.keys()
Keys(table) == [i \in DOMAIN table |-> table[i][1]]

NoCall == [datasets |-> <<>>, block |-> FALSE, defaults |-> FALSE]

IdleDatasets ==
    /\ dsCall = NoCall
    /\ dataset_table = <<>>
    /\ max_workers = 0
    /\ futures = <<>>
    /\ promiseKeys = <<>>
    /\ dsPc = "idle"

IdleCache ==
    /\ cacheLineSize = CHOOSE n \in LineSizes : \A m \in LineSizes : m <= n
    /\ baseAddress = 0
    /\ cache = <<>>
    /\ driverCalls = <<>>
    /\ onlyCached = TRUE
    /\ lastIo = NoIo
    /\ lastPrefetch = NoIo
    /\ ioCount = 0

\* readDatasets(datasets, block, earlyExit, metaOnly, enableAttributes) up to
\* the construction of the promise.
readDatasets(datasets, block, earlyExit, metaOnly, enableAttributes, defaults) ==
    /\ dsCall' = [datasets |-> datasets, block |-> block, defaults |-> defaults]
    /\ IF Len(datasets) <= 0
       THEN /\ dsPc' = "returned_none"
            /\ UNCHANGED <<dataset_table, max_workers, futures, promiseKeys>>
       ELSE LET table == MakeTable(<<>>, datasets)
            IN  /\ dataset_table' = table
                /\ max_workers' = Len(table)
                /\ futures' = Submit(datasets, table, earlyExit, metaOnly, enableAttributes)
                /\ promiseKeys' = Keys(table)
                /\ dsPc' = IF block THEN "waiting" ELSE "returned"
    /\ UNCHANGED <<ioVars, grpVars, raceVars, inspVars>>

\* readDatasets(datasets): no other argument given.
ReadDatasetsDefault ==
    /\ dsPc = "idle"
    /\ \E datasets \in RequestLists :
        readDatasets(datasets, BLOCK_DEFAULT, EARLY_EXIT_DEFAULT, META_ONLY_DEFAULT,
                     ENABLE_ATTRIBUTES_DEFAULT, TRUE)

ReadDatasetsArgs ==
    /\ dsPc = "idle"
    /\ \E datasets \in RequestLists, block, earlyExit, metaOnly, enableAttributes \in BOOLEAN :
        readDatasets(datasets, block, earlyExit, metaOnly, enableAttributes, FALSE)

\* A worker of the pool runs H5Dataset.factory for task i and the parse succeeds.
TaskDone ==
    \E i \in DOMAIN futures :
        /\ futures[i].state = "pending"
        /\ futures[i].task.dataset \notin BadPaths
        /\ futures' = [futures EXCEPT ![i].state = "done"]
        /\ UNCHANGED <<dsCall, dataset_table, max_workers, promiseKeys, dsPc, ioVars, grpVars, raceVars, inspVars>>

\* A worker of the pool runs H5Dataset.factory for task i and the parse raises.
TaskFail ==
    \E i \in DOMAIN futures :
        /\ futures[i].state = "pending"
        /\ futures[i].task.dataset \in BadPaths
        /\ futures' = [futures EXCEPT ![i].state = "failed"]
        /\ UNCHANGED <<dsCall, dataset_table, max_workers, promiseKeys, dsPc, ioVars, grpVars, raceVars, inspVars>>

\* H5Promise(keys, futures, block=True) returns once every future has completed.
PromiseReturn ==
    /\ dsPc = "waiting"
    /\ \A i \in DOMAIN futures : futures[i].state # "pending"
    /\ dsPc' = "returned"
    /\ UNCHANGED <<dsCall, dataset_table, max_workers, futures, promiseKeys, ioVars, grpVars, raceVars, inspVars>>

\* The entry of the promise for its i-th key: the result of the i-th future,
\* empty when the task failed.
PromiseResult(i) ==
    IF i \notin DOMAIN futures THEN [status |-> "missing", dataset |-> <<>>]
    ELSE IF futures[i].state = "done"
    THEN [status |-> "resolved", dataset |-> futures[i].task.dataset]
    ELSE IF futures[i].state = "failed"
    THEN [status |-> "empty", dataset |-> futures[i].task.dataset]
    ELSE [status |-> "pending", dataset |-> futures[i].task.dataset]

NextDatasets ==
    ReadDatasetsDefault \/ ReadDatasetsArgs \/ TaskDone \/ TaskFail \/ PromiseReturn

\* ------------------------------------------------------------------ listGroup
\* s.startswith(prefix)
StartsWith(s, prefix) ==
    Len(prefix) <= Len(s) /\ SubSeq(s, 1, Len(prefix)) = prefix

\* s.find(sep) + 1: the first position at which sep occurs in s, 0 if none.
Find(s, sep) ==
    LET hits == {i \in 1..(Len(s) - Len(sep) + 1) : SubSeq(s, i, i + Len(sep) - 1) = sep}
    IN  IF hits = {} THEN 0 ELSE CHOOSE i \in hits : \A j \in hits : i <= j

\* s.split(sep) for a non-empty sep: the pieces between the non-overlapping
\* occurrences of sep, found left to right.
RECURSIVE Split(_, _)
Split(s, sep) ==
    LET i == Find(s, sep)
    IN  IF i = 0 THEN <<s>>
        ELSE <<SubSeq(s, 1, i - 1)>> \o Split(SubSeq(s, i + Len(sep), Len(s)), sep)

Slash == <<"/">>

EmptyCheckOff(group) == FALSE

\* line 165: `len(group) <= 0`
EmptyCheck(group) == Len(group) <= 0

\* lines 172-173: one leading slash removed.
StripLeading(group) == IF group[1] = "/" THEN Tail(group) ELSE group

\* lines 174-175: one trailing slash removed.
StripTrailing(group) ==
    IF group[Len(group)] = "/" THEN SubSeq(group, 1, Len(group) - 1) ELSE group

\* lines 182-186: the name reported for a table path that starts with group;
\* the empty string when nothing follows the first occurrence of group.
Element(path, group) ==
    LET element == Split(path, group)[2]
    IN  IF Len(element) > 0
        THEN Split(IF element[1] = "/" THEN Tail(element) ELSE element, Slash)[1]
        ELSE <<>>

\* line 183: `len(element) > 0`
Reported(path, group) == StartsWith(path, group) /\ Len(Split(path, group)[2]) > 0

\* lines 179-190: the scan of the metadata table.
Scan(table, group) ==
    [variables  |-> {Element(path, group) :
                        path \in {q \in DOMAIN table : Reported(q, group) /\ ~table[q]}},
     attributes |-> {Element(path, group) :
                        path \in {q \in DOMAIN table : Reported(q, group) /\ table[q]}}]

\* The Dataset Parser on the container: a path is found when it is the root
\* or a record of the container.
Normal(group) ==
    LET g1 == IF group # <<>> /\ group[1] = "/" THEN Tail(group) ELSE group
    IN  IF g1 # <<>> /\ g1[Len(g1)] = "/" THEN SubSeq(g1, 1, Len(g1) - 1) ELSE g1

ParseFails(group) == Normal(group) # <<>> /\ Normal(group) \notin DOMAIN resource

\* The records a metadata-only, non-early-exit parse of group writes: every
\* record of the container beneath group, attributes only when asked for.
Discovered(group, w_attr) ==
    {q \in DOMAIN resource :
        /\ (Normal(group) = <<>> \/ StartsWith(q, Normal(group) \o Slash))
        /\ (resource[q] => w_attr)}

Merge(table, found) ==
    [q \in DOMAIN table \cup found |-> IF q \in DOMAIN table THEN table[q] ELSE resource[q]]

\* listGroup(group, w_attr, w_inspect=False): the value returned, how the call
\* ended and the metadata table afterwards.
listGroup(table, group, w_attr) ==
    IF EmptyCheck(group)
    THEN \* raise RuntimeError, caught at line 202
         [outcome |-> "returned", caught |-> TRUE, table |-> table,
          variables |-> {}, attributes |-> {}]
    ELSE IF group = <<>>
    THEN \* group[0] on an empty str
         [outcome |-> "IndexError", caught |-> FALSE, table |-> table,
          variables |-> {}, attributes |-> {}]
    ELSE IF ParseFails(group)
    THEN \* RuntimeError out of H5Dataset, caught at line 202
         [outcome |-> "returned", caught |-> TRUE, table |-> table,
          variables |-> {}, attributes |-> {}]
    ELSE LET table1 == Merge(table, Discovered(group, w_attr))
             g1     == StripLeading(group)
         IN  IF g1 = <<>>
             THEN \* group[-1] on an empty str
                  [outcome |-> "IndexError", caught |-> FALSE, table |-> table1,
                   variables |-> {}, attributes |-> {}]
             ELSE LET r == Scan(table1, StripTrailing(g1))
                  IN  [outcome |-> "returned", caught |-> FALSE, table |-> table1,
                       variables |-> r.variables, attributes |-> r.attributes]

\* The paths a container may hold, without the leading slash the parser removes.
PathG   == <<"g">>
PathGA  == <<"g", "/", "a">>
PathGB  == <<"g", "/", "b">>
PathGBT == <<"g", "/", "b", "/", "t">>
PathGU  == <<"g", "/", "u">>
PathG2X == <<"g", "2", "/", "x">>

\* path -> isattribute
RecordUniverse ==
    (PathG :> FALSE) @@ (PathGA :> FALSE) @@ (PathGB :> FALSE) @@
    (PathGBT :> TRUE) @@ (PathGU :> TRUE) @@ (PathG2X :> FALSE)

Restrict(f, S) == [x \in S |-> f[x]]

GroupArgs ==
    {<<>>, Slash, PathG, Slash \o PathG, Slash \o PathG \o Slash, Slash \o PathGB}

NoList == [group |-> <<>>, w_attr |-> FALSE, outcome |-> "none", caught |-> FALSE,
           before |-> <<>>, after |-> <<>>, variables |-> {}, attributes |-> {}]

IdleGroup ==
    /\ resource = <<>>
    /\ metadataTable = <<>>
    /\ lastList = NoList

\* A handle on some container that holds the group g: the metadata table is
\* empty after construction.
InitGroup ==
    /\ resource \in {Restrict(RecordUniverse, S \cup {PathG}) :
                         S \in SUBSET DOMAIN RecordUniverse}
    /\ metadataTable = <<>>
    /\ lastList = NoList

\* A parse task of the handle (readDatasets, inspectVariable) writes the record
\* of the path it has read.
ParserInsert ==
    \E q \in DOMAIN resource \ DOMAIN metadataTable :
        /\ metadataTable' = Merge(metadataTable, {q})
        /\ UNCHANGED <<resource, lastList, ioVars, dsVars, raceVars, inspVars>>

ListGroup ==
    \E group \in GroupArgs, w_attr \in BOOLEAN :
        \E r \in {listGroup(metadataTable, group, w_attr)} :
            /\ metadataTable' = r.table
            /\ lastList' = [group |-> group, w_attr |-> w_attr, outcome |-> r.outcome,
                            caught |-> r.caught, before |-> metadataTable,
                            after |-> r.table,
                            variables |-> r.variables, attributes |-> r.attributes]
            /\ UNCHANGED <<resource, ioVars, dsVars, raceVars, inspVars>>

NextGroup == ParserInsert \/ ListGroup

\* ------------------------------------------------------------------ concurrent ioRequest
\* Read tasks of one handle run ioRequest in parallel threads on the shared
\* cache.  A thread may be preempted between the membership test of line 227,
\* the driver call and the store of line 228, and the load of line 236.
TaskIds == {1, 2}

\* The (caching, prefetch) arguments of the calls the tasks make.
TaskModes == {<<TRUE, FALSE>>, <<FALSE, TRUE>>, <<FALSE, FALSE>>}

IdleTask ==
    [pc |-> "idle", pos |-> 0, size |-> 0, caching |-> FALSE, prefetch |-> FALSE,
     cur |-> 0, data_to_read |-> 0, data_blocks |-> <<>>, cache_line |-> 0,
     buf |-> <<>>, data_index |-> 0, block_size |-> 0, result |-> NoData]

IdleTasks == tasks = [t \in TaskIds |-> IdleTask]

StoreLineTruncated(c, cache_line, line) ==
    DictPut(c, cache_line, SubSeq(line, 1, Len(line) - 1))

\* lines 228, 250: self.cache[cache_line] = <line>
StoreLine(c, cache_line, line) == DictPut(c, cache_line, line)

RaiseAfterStore(c, cache_line) == DictPut(c, cache_line, <<>>)

\* lines 228, 246: driver.read raises before the assignment takes place.
RaiseBeforeStore(c, cache_line) == c

\* Task t enters ioRequest(pos, size, caching, prefetch): lines 218-222, 243, 255.
TaskCall ==
    \E t \in TaskIds :
        /\ tasks[t].pc = "idle"
        /\ \E pos \in 0..MaxTaskPos, size \in 0..MaxTaskSize, mode \in TaskModes :
               tasks' = [tasks EXCEPT ![t] =
                   [IdleTask EXCEPT
                       !.pc = IF mode[1] THEN "loop" ELSE IF mode[2] THEN "pf_read" ELSE "direct",
                       !.pos = pos, !.size = size, !.caching = mode[1], !.prefetch = mode[2],
                       !.cur = pos, !.data_to_read = size]]
        /\ UNCHANGED <<ioVars, dsVars, grpVars, inspVars>>

\* lines 223-227: the loop test, the cache line and the membership test;
\* lines 238-241 when the loop ends.
LoopTest ==
    \E t \in TaskIds :
        /\ tasks[t].pc = "loop"
        /\ IF tasks[t].data_to_read > 0
           THEN \E cache_line \in {CacheLine(tasks[t].cur, baseAddress, cacheLineSize)} :
                    tasks' = [tasks EXCEPT ![t].cache_line = cache_line,
                                           ![t].pc = IF Miss(cache, cache_line)
                                                     THEN "fetch" ELSE "slice"]
           ELSE tasks' = [tasks EXCEPT
                            ![t].pc = "done",
                            ![t].result = IF Len(tasks[t].data_blocks) = 1
                                          THEN tasks[t].data_blocks[1]
                                          ELSE Join(tasks[t].data_blocks)]
        /\ UNCHANGED <<ioVars, dsVars, grpVars, inspVars>>

\* line 228, right-hand side: driver.read(cache_line, cacheLineSize) returns.
FetchOk ==
    \E t \in TaskIds :
        /\ tasks[t].pc = "fetch"
        /\ tasks' = [tasks EXCEPT ![t].buf = DriverRead(tasks[t].cache_line, cacheLineSize),
                                  ![t].pc = "store"]
        /\ driverCalls' = CountCalls(driverCalls, << <<tasks[t].cache_line, cacheLineSize>> >>)
        /\ UNCHANGED <<cacheLineSize, baseAddress, cache, onlyCached, lastIo, lastPrefetch,
                       ioCount, dsVars, grpVars, inspVars>>

\* lines 228, 246, 256: driver.read raises; nothing in ioRequest catches it.
DriverFail ==
    \E t \in TaskIds :
        /\ tasks[t].pc \in {"fetch", "pf_read", "direct"}
        /\ tasks' = [tasks EXCEPT ![t].pc = "failed"]
        /\ cache' = RaiseBeforeStore(cache, tasks[t].cache_line)
        /\ UNCHANGED <<cacheLineSize, baseAddress, driverCalls, onlyCached, lastIo,
                       lastPrefetch, ioCount, dsVars, grpVars, inspVars>>

\* line 228, the assignment.
Store ==
    \E t \in TaskIds :
        /\ tasks[t].pc = "store"
        /\ cache' = StoreLine(cache, tasks[t].cache_line, tasks[t].buf)
        /\ tasks' = [tasks EXCEPT ![t].pc = "slice"]
        /\ UNCHANGED <<cacheLineSize, baseAddress, driverCalls, onlyCached, lastIo,
                       lastPrefetch, ioCount, dsVars, grpVars, inspVars>>

\* lines 230-236: the indexes and the slice of the cached line.
Slice ==
    \E t \in TaskIds :
        /\ tasks[t].pc = "slice"
        /\ LET start_index == StartIndex(tasks[t].cur, baseAddress, tasks[t].cache_line)
               stop_index  == StopIndex(start_index, tasks[t].data_to_read, cacheLineSize)
               data_read   == stop_index - start_index
           IN  tasks' = [tasks EXCEPT
                   ![t].data_to_read = @ - data_read,
                   ![t].cur = @ + data_read,
                   ![t].data_blocks = Append(@, PySlice(cache[tasks[t].cache_line],
                                                        start_index, stop_index)),
                   ![t].pc = "loop"]
        /\ UNCHANGED <<ioVars, dsVars, grpVars, inspVars>>

\* lines 244-247: the block size, the first line and the single driver call.
PrefetchRead ==
    \E t \in TaskIds :
        /\ tasks[t].pc = "pf_read"
        /\ \E block_size \in {BlockSize(tasks[t].size, cacheLineSize)},
              cache_line \in {CacheLine(tasks[t].pos, baseAddress, cacheLineSize)} :
               /\ tasks' = [tasks EXCEPT ![t].block_size = block_size,
                                         ![t].cache_line = cache_line,
                                         ![t].buf = DriverRead(cache_line, block_size),
                                         ![t].data_index = 0,
                                         ![t].pc = "pf_store"]
               /\ driverCalls' = CountCalls(driverCalls, << <<cache_line, block_size>> >>)
        /\ UNCHANGED <<cacheLineSize, baseAddress, cache, onlyCached, lastIo, lastPrefetch,
                       ioCount, dsVars, grpVars, inspVars>>

\* lines 248-253: one turn of the loop that caches the lines of the block.
PrefetchStore ==
    \E t \in TaskIds :
        /\ tasks[t].pc = "pf_store"
        /\ IF tasks[t].data_index < tasks[t].block_size
           THEN /\ cache' = StoreLine(cache, tasks[t].cache_line,
                                      PrefetchLine(tasks[t].buf, tasks[t].data_index,
                                                   cacheLineSize))
                /\ tasks' = [tasks EXCEPT ![t].cache_line = @ + cacheLineSize,
                                          ![t].data_index = @ + cacheLineSize]
           ELSE /\ tasks' = [tasks EXCEPT ![t].pc = "done", ![t].result = NoData]
                /\ UNCHANGED cache
        /\ UNCHANGED <<cacheLineSize, baseAddress, driverCalls, onlyCached, lastIo,
                       lastPrefetch, ioCount, dsVars, grpVars, inspVars>>

\* line 256: the pass-through call returns.
DirectReturn ==
    \E t \in TaskIds :
        /\ tasks[t].pc = "direct"
        /\ tasks' = [tasks EXCEPT
               ![t].result = DriverRead(tasks[t].pos + baseAddress, tasks[t].size),
               ![t].pc = "done"]
        /\ driverCalls' = CountCalls(driverCalls,
                                     << <<tasks[t].pos + baseAddress, tasks[t].size>> >>)
        /\ UNCHANGED <<cacheLineSize, baseAddress, cache, onlyCached, lastIo, lastPrefetch,
                       ioCount, dsVars, grpVars, inspVars>>

NextRace ==
    \/ TaskCall \/ LoopTest \/ FetchOk \/ DriverFail \/ Store \/ Slice
    \/ PrefetchRead \/ PrefetchStore \/ DirectReturn

\* ------------------------------------------------------------------ listGroup with inspect
\* The statement-level steps of listGroup(group, w_attr, w_inspect), of the
\* inspectThread tasks it submits and of the readDatasets calls and the nested
\* listGroup call inside inspectVariable, while other parse tasks of the handle
\* write records into the shared metadata table.

\* Some enumeration of a finite set.
RECURSIVE SetToSeq(_)
SetToSeq(S) ==
    IF S = {} THEN <<>>
    ELSE LET x == CHOOSE y \in S : TRUE IN <<x>> \o SetToSeq(S \ {x})

\* An iterator over the keys view of a dict: the position of the next key and
\* the size of the dict when the iterator was made.
NewIter(order) == [pos |-> 1, size |-> Len(order)]

\* next() on a dict iterator: RuntimeError when the dict has changed size,
\* StopIteration at the end, the next key otherwise.
IterNext(it, order) ==
    IF Len(order) # it.size THEN "error"
    ELSE IF it.pos > Len(order) THEN "stop"
    ELSE "key"

PoolWidthOne(n) == 1

\* lines 128, 195: max_workers of the pool of a fan-out of n tasks.
PoolWidth(n) == n

\* lines 181-190: the body of the scan loop for one path.
ScanOne(acc, table, path, group) ==
    IF Reported(path, group)
    THEN IF table[path]
         THEN [acc EXCEPT !.attributes = @ \cup {Element(path, group)}]
         ELSE [acc EXCEPT !.variables = @ \cup {Element(path, group)}]
    ELSE acc

\* line 196: f'/{group}/{variable}'
VariablePath(group, variable) == Slash \o group \o Slash \o variable

\* line 147: f'{variable}/{attr}'
AttrPath(variable, attr) == variable \o Slash \o attr

\* The workers of a pool that are running a task.
Running(futs) == {i \in DOMAIN futs : futs[i].state = "running"}

Completed(futs) == \A i \in DOMAIN futs : futs[i].state \in {"done", "failed"}

NoScan == [variables |-> {}, attributes |-> {}]

IdleTop ==
    [pc |-> "idle", group |-> <<>>, g |-> <<>>, w_attr |-> FALSE, w_inspect |-> FALSE,
     it |-> NewIter(<<>>), acc |-> NoScan, expected |-> NoScan, scanError |-> FALSE,
     width |-> 0, collected |-> {},
     variables |-> {}, variablesIsDict |-> FALSE,
     attributes |-> {}, attributesIsDict |-> FALSE]

NewInspect(variable) ==
    [pc |-> "queued", variable |-> variable, meta |-> FALSE, g |-> <<>>,
     it |-> NewIter(<<>>), acc |-> NoScan, expected |-> NoScan,
     scanned |-> FALSE, scanError |-> FALSE,
     sub |-> <<>>, subWidth |-> 0, attributes |-> {}]

\* The containers of the handle: each holds the group g.
InspectContainers ==
    {DOMAIN RecordUniverse,
     {PathG, PathGA, PathGB, PathGBT, PathGU},
     {PathG, PathGA, PathG2X},
     {PathG, PathGB, PathGBT},
     {PathG, PathGU}}

\* Read tasks in flight when listGroup is called.
MaxInflight == 1

InspectGroups == {Slash \o PathG, Slash \o PathGB}

IdleInspect ==
    /\ keyOrder = <<>>
    /\ top = IdleTop
    /\ insp = <<>>
    /\ inflight = {}

\* A parse writes the records `found` that the table does not hold yet.
AppendKeys(order, table, found) == order \o SetToSeq(found \ DOMAIN table)

\* Another parse task of the handle (a readDatasets task still in flight)
\* writes the record of the path it has read.
InsertRecord ==
    \E q \in inflight :
        /\ metadataTable' = Merge(metadataTable, {q})
        /\ keyOrder' = AppendKeys(keyOrder, metadataTable, {q})
        /\ inflight' = inflight \ {q}
        /\ UNCHANGED <<resource, lastList, top, insp, ioVars, dsVars, raceVars>>

\* lines 159-180: the caller enters listGroup; the argument check, the parse
\* of the group, the normalization and the start of the scan.
ListCall ==
    /\ top.pc = "idle"
    /\ \E group \in InspectGroups, w_attr, w_inspect \in BOOLEAN :
        LET called == [IdleTop EXCEPT !.group = group, !.w_attr = w_attr,
                                      !.w_inspect = w_inspect]
        IN  IF EmptyCheck(group) \/ ParseFails(group)
            THEN /\ top' = [called EXCEPT !.pc = "returned"]
                 /\ UNCHANGED <<metadataTable, keyOrder>>
            ELSE \E found \in {Discovered(group, w_attr)} :
                 \E g \in {StripTrailing(StripLeading(group))} :
                    /\ metadataTable' = Merge(metadataTable, found)
                    /\ keyOrder' = AppendKeys(keyOrder, metadataTable, found)
                    /\ top' = [called EXCEPT
                                 !.pc = "scan", !.g = g,
                                 !.it = NewIter(keyOrder'),
                                 !.expected = Scan(metadataTable', g)]
    /\ UNCHANGED <<resource, lastList, insp, inflight, ioVars, dsVars, raceVars>>

\* lines 180-190: one turn of the scan loop of the caller.  A RuntimeError out
\* of the iterator is caught at line 202 and the call returns what it has.
\* lines 193-196 when the loop ends: the pool and one task per variable.
TopScan ==
    /\ top.pc = "scan"
    /\ \E step \in {IterNext(top.it, keyOrder)} :
        IF step = "error"
        THEN /\ top' = [top EXCEPT !.pc = "returned", !.scanError = TRUE,
                                   !.variables = top.acc.variables,
                                   !.attributes = top.acc.attributes]
             /\ UNCHANGED insp
        ELSE IF step = "key"
        THEN /\ top' = [top EXCEPT
                          !.acc = ScanOne(@, metadataTable, keyOrder[top.it.pos], top.g),
                          !.it.pos = @ + 1]
             /\ UNCHANGED insp
        ELSE IF top.w_inspect /\ Cardinality(top.acc.variables) > 0
        THEN /\ top' = [top EXCEPT !.pc = "collect",
                                   !.width = PoolWidth(Cardinality(top.acc.variables)),
                                   !.variables = top.acc.variables,
                                   !.attributes = top.acc.attributes]
             /\ insp' = [i \in 1..Cardinality(top.acc.variables) |->
                            NewInspect(VariablePath(top.g, SetToSeq(top.acc.variables)[i]))]
        ELSE /\ top' = [top EXCEPT !.pc = "returned",
                                   !.variables = top.acc.variables,
                                   !.attributes = top.acc.attributes]
             /\ UNCHANGED insp
    /\ UNCHANGED <<grpVars, keyOrder, inflight, ioVars, dsVars, raceVars>>

\* A worker of the pool of line 195 takes a submitted inspectThread task.
WorkerStart ==
    \E i \in DOMAIN insp :
        /\ insp[i].pc = "queued"
        /\ Cardinality({j \in DOMAIN insp : insp[j].pc \notin {"queued", "done"}}) < top.width
        /\ insp' = [insp EXCEPT ![i].pc = "rd1"]
        /\ UNCHANGED <<grpVars, keyOrder, top, inflight, ioVars, dsVars, raceVars>>

\* line 139: readDatasets([variable], block=True, earlyExit=True, metaOnly=True,
\* enableAttributes=False) up to the blocking promise.
ReadVariable ==
    \E i \in DOMAIN insp :
        /\ insp[i].pc = "rd1"
        /\ LET datasets == <<StrRequest(insp[i].variable)>>
               table    == MakeTable(<<>>, datasets)
           IN  insp' = [insp EXCEPT
                   ![i].sub = Submit(datasets, table, TRUE, TRUE, FALSE),
                   ![i].subWidth = PoolWidth(Len(table)),
                   ![i].pc = "rd1_wait"]
        /\ UNCHANGED <<grpVars, keyOrder, top, inflight, ioVars, dsVars, raceVars>>

\* A worker of a readDatasets pool takes a submitted task.
SubStart ==
    \E i \in DOMAIN insp : \E j \in DOMAIN insp[i].sub :
        /\ insp[i].sub[j].state = "pending"
        /\ Cardinality(Running(insp[i].sub)) < insp[i].subWidth
        /\ insp' = [insp EXCEPT ![i].sub[j].state = "running"]
        /\ UNCHANGED <<grpVars, keyOrder, top, inflight, ioVars, dsVars, raceVars>>

\* H5Dataset.factory for the path of a task: the parse raises, or writes the
\* record of the path.
SubRun ==
    \E i \in DOMAIN insp : \E j \in DOMAIN insp[i].sub :
        /\ insp[i].sub[j].state = "running"
        /\ LET path == insp[i].sub[j].task.dataset
           IN  IF ParseFails(path)
               THEN /\ insp' = [insp EXCEPT ![i].sub[j].state = "failed"]
                    /\ UNCHANGED <<metadataTable, keyOrder>>
               ELSE /\ insp' = [insp EXCEPT ![i].sub[j].state = "done"]
                    /\ metadataTable' = Merge(metadataTable, {Normal(path)} \cap DOMAIN resource)
                    /\ keyOrder' = AppendKeys(keyOrder, metadataTable,
                                              {Normal(path)} \cap DOMAIN resource)
        /\ UNCHANGED <<resource, lastList, top, inflight, ioVars, dsVars, raceVars>>

\* lines 139-144: the blocking promise returns; metadata of the variable (empty
\* when its task failed); the task is over when no attributes are asked for.
VariableRead ==
    \E i \in DOMAIN insp :
        /\ insp[i].pc = "rd1_wait"
        /\ Completed(insp[i].sub)
        /\ insp' = [insp EXCEPT
               ![i].meta = (insp[i].sub[1].state = "done"),
               ![i].sub = <<>>,
               ![i].pc = IF top.w_attr THEN "lg_parse" ELSE "done"]
        /\ UNCHANGED <<grpVars, keyOrder, top, inflight, ioVars, dsVars, raceVars>>

\* line 146: listGroup(variable, w_attr) up to the start of its scan.
NestedListCall ==
    \E i \in DOMAIN insp :
        /\ insp[i].pc = "lg_parse"
        /\ IF EmptyCheck(insp[i].variable) \/ ParseFails(insp[i].variable)
           THEN /\ insp' = [insp EXCEPT ![i].pc = "rd2"]
                /\ UNCHANGED <<metadataTable, keyOrder>>
           ELSE \E found \in {Discovered(insp[i].variable, top.w_attr)} :
                \E g \in {StripTrailing(StripLeading(insp[i].variable))} :
                    /\ metadataTable' = Merge(metadataTable, found)
                    /\ keyOrder' = AppendKeys(keyOrder, metadataTable, found)
                    /\ insp' = [insp EXCEPT
                           ![i].pc = "lg_scan", ![i].g = g, ![i].scanned = TRUE,
                           ![i].it = NewIter(keyOrder'),
                           ![i].expected = Scan(metadataTable', g)]
        /\ UNCHANGED <<resource, lastList, top, inflight, ioVars, dsVars, raceVars>>

\* lines 180-190 in the nested call: one turn of its scan loop; at the end, or
\* on a RuntimeError out of the iterator, the nested call returns what it has.
NestedScan ==
    \E i \in DOMAIN insp :
        /\ insp[i].pc = "lg_scan"
        /\ \E step \in {IterNext(insp[i].it, keyOrder)} :
            IF step = "key"
            THEN insp' = [insp EXCEPT
                    ![i].acc = ScanOne(@, metadataTable, keyOrder[insp[i].it.pos], insp[i].g),
                    ![i].it.pos = @ + 1]
            ELSE insp' = [insp EXCEPT ![i].pc = "rd2",
                                      ![i].scanError = (step = "error")]
        /\ UNCHANGED <<grpVars, keyOrder, top, inflight, ioVars, dsVars, raceVars>>

\* lines 147-149: readDatasets(attr_paths, enableAttributes=True); it returns at
\* line 117 when there is no attribute.
ReadAttributes ==
    \E i \in DOMAIN insp :
        /\ insp[i].pc = "rd2"
        /\ LET attr_paths == [k \in 1..Cardinality(insp[i].acc.attributes) |->
                                 AttrPath(insp[i].variable,
                                          SetToSeq(insp[i].acc.attributes)[k])]
               datasets   == [k \in DOMAIN attr_paths |-> StrRequest(attr_paths[k])]
               table      == MakeTable(<<>>, datasets)
           IN  IF Len(datasets) <= 0
               THEN insp' = [insp EXCEPT ![i].pc = "done"]
               ELSE insp' = [insp EXCEPT
                       ![i].sub = Submit(datasets, table, EARLY_EXIT_DEFAULT,
                                         META_ONLY_DEFAULT, TRUE),
                       ![i].subWidth = PoolWidth(Len(table)),
                       ![i].pc = "rd2_wait"]
        /\ UNCHANGED <<grpVars, keyOrder, top, inflight, ioVars, dsVars, raceVars>>

\* lines 149-154: the blocking promise returns and the attribute values are
\* collected under their paths; inspectThread returns (line 68).
AttributesRead ==
    \E i \in DOMAIN insp :
        /\ insp[i].pc = "rd2_wait"
        /\ Completed(insp[i].sub)
        /\ insp' = [insp EXCEPT
               ![i].attributes = {insp[i].sub[k].task.dataset : k \in DOMAIN insp[i].sub},
               ![i].pc = "done"]
        /\ UNCHANGED <<grpVars, keyOrder, top, inflight, ioVars, dsVars, raceVars>>

\* lines 197-199: as_completed yields a finished future; its variable becomes
\* a key of inspected_variables and its attributes are bound to `attributes`.
Collect ==
    /\ top.pc = "collect"
    /\ \E i \in DOMAIN insp \ top.collected :
        /\ insp[i].pc = "done"
        /\ top' = [top EXCEPT !.collected = @ \cup {i},
                              !.attributes = insp[i].attributes,
                              !.attributesIsDict = TRUE]
    /\ UNCHANGED <<grpVars, keyOrder, insp, inflight, ioVars, dsVars, raceVars>>

\* lines 200, 206: every future has been taken; the dict replaces the set.
TopReturn ==
    /\ top.pc = "collect"
    /\ top.collected = DOMAIN insp
    /\ top' = [top EXCEPT !.pc = "returned",
                          !.variables = {insp[i].variable : i \in DOMAIN insp},
                          !.variablesIsDict = TRUE]
    /\ UNCHANGED <<grpVars, keyOrder, insp, inflight, ioVars, dsVars, raceVars>>

\* The steps of the call and of its tasks.
InspectProgress ==
    \/ ListCall \/ TopScan \/ WorkerStart \/ ReadVariable \/ SubStart \/ SubRun
    \/ VariableRead \/ NestedListCall \/ NestedScan \/ ReadAttributes
    \/ AttributesRead \/ Collect \/ TopReturn

NextInspect == InsertRecord \/ InspectProgress

\* A handle used for ioRequest calls only.
InitCacheOnly == InitCache /\ IdleDatasets /\ IdleGroup /\ IdleTasks /\ IdleInspect

SpecCache == InitCacheOnly /\ [][NextCache]_vars

\* A handle used for one readDatasets call.
InitDatasetsOnly == IdleCache /\ IdleDatasets /\ IdleGroup /\ IdleTasks /\ IdleInspect

SpecDatasets == InitDatasetsOnly /\ [][NextDatasets]_vars

\* A handle used for listGroup calls, with parse tasks filling the table.
InitGroupOnly == IdleCache /\ IdleDatasets /\ InitGroup /\ IdleTasks /\ IdleInspect

SpecGroup == InitGroupOnly /\ [][NextGroup]_vars

\* A handle whose read tasks call ioRequest concurrently.
InitRace == InitCache /\ IdleDatasets /\ IdleGroup /\ IdleTasks /\ IdleInspect

SpecRace == InitRace /\ [][NextRace]_vars

\* A handle on which listGroup is called while read tasks are in flight.
InitInspect ==
    /\ IdleCache /\ IdleDatasets /\ IdleTasks
    /\ resource \in {Restrict(RecordUniverse, S) : S \in InspectContainers}
    /\ metadataTable = <<>>
    /\ lastList = NoList
    /\ keyOrder = <<>>
    /\ top = IdleTop
    /\ insp = <<>>
    /\ inflight \in {S \in SUBSET DOMAIN resource : Cardinality(S) <= MaxInflight}

SpecInspect == InitInspect /\ [][NextInspect]_vars

\* The threads of the call and of its tasks are scheduled as long as they can run.
SpecInspectFair == SpecInspect /\ WF_vars(InspectProgress)

\* ------------------------------------------------------------------ cache properties
\* Arithmetic statement of alignment, independent of the mask.
LineOf(a) == a - (a % cacheLineSize)

\* The line starts spanned by the absolute range [a, a+n).
SpannedLines(a, n) ==
    {k \in 0..(a + n) : k % cacheLineSize = 0 /\ k < a + n /\ k + cacheLineSize > a /\ n > 0}

\* The smallest multiple of the line size that is >= n.
RoundUp(n) == ((n + cacheLineSize - 1) \div cacheLineSize) * cacheLineSize

SeqRange(q) == {q[i] : i \in DOMAIN q}

IsCachedRead(io) == io.caching
IsPrefetch(io)   == ~io.caching /\ io.prefetch
IsDirect(io)     == ~io.caching /\ ~io.prefetch

\* C1: a cached read returns exactly the bytes the driver holds for
\* [pos+baseAddress, pos+baseAddress+size), in increasing offset order,
\* whatever requests came before and whatever the cache held.
C1_CachedReadReturnsDriverBytes ==
    (ioCount > 0 /\ IsCachedRead(lastIo)) =>
        /\ Len(lastIo.data) = lastIo.size
        /\ \A i \in 1..lastIo.size :
               lastIo.data[i] = FileByte(lastIo.pos + baseAddress + i - 1)

\* C1 witness: a cached read over two lines, one already cached by an earlier
\* request and one missing.
C1_Witness ==
    /\ ioCount = 2 /\ IsCachedRead(lastIo)
    /\ Cardinality(SpannedLines(lastIo.pos + baseAddress, lastIo.size)) = 2
    /\ Len(lastIo.calls) = 1
    /\ lastIo.data = DriverRead(lastIo.pos + baseAddress, lastIo.size)

\* C2: in a sequence of cached reads every line is fetched at most once over
\* the handle's lifetime, each fetch being (aligned line start, lineSize); a
\* cached read fetches exactly its spanned lines that were missing, in
\* increasing order; a two-byte read straddling a line boundary on an empty
\* cache makes exactly two fetches.
C2_OneFetchPerLine ==
    /\ onlyCached =>
          \A k \in DOMAIN driverCalls :
              /\ driverCalls[k] = 1
              /\ k[2] = cacheLineSize
              /\ k[1] % cacheLineSize = 0
    /\ (ioCount > 0 /\ IsCachedRead(lastIo)) =>
          LET spanned == SpannedLines(lastIo.pos + baseAddress, lastIo.size)
              missing == spanned \ DOMAIN lastIo.before
          IN  /\ Len(lastIo.calls) = Cardinality(missing)
              /\ Len(lastIo.calls) <= Cardinality(spanned)
              /\ SeqRange(lastIo.calls) = {<<k, cacheLineSize>> : k \in missing}
              /\ \A i, j \in DOMAIN lastIo.calls :
                     i < j => lastIo.calls[i][1] < lastIo.calls[j][1]
              /\ (/\ lastIo.before = <<>>
                  /\ lastIo.size = 2
                  /\ (lastIo.pos + baseAddress) % cacheLineSize = cacheLineSize - 1)
                 => Len(lastIo.calls) = 2

\* C2 witness: the straddling read on an empty cache, then the same region
\* read again without any fetch.
C2_Witness ==
    /\ onlyCached /\ ioCount = 2
    /\ lastIo.size = 2
    /\ (lastIo.pos + baseAddress) % cacheLineSize = cacheLineSize - 1
    /\ lastIo.calls = <<>>
    /\ Cardinality(DOMAIN driverCalls) = 2

\* What a prefetch of (pos, size) does: one driver call for the aligned,
\* rounded-up block, every line of the block inserted, nothing returned.
ActsAsPrefetch(io) ==
    LET first == LineOf(io.pos + baseAddress)
        len   == RoundUp(io.size)
    IN  /\ io.calls = << <<first, len>> >>
        /\ io.data = NoData
        /\ \A k \in SpannedLines(first, len) :
               k \in DOMAIN cache /\ cache[k] = DriverRead(k, cacheLineSize)

\* C3 as stated: every call with prefetch=True acts as a prefetch, whatever
\* the caching argument.
C3_PrefetchWhateverCaching ==
    (ioCount > 0 /\ lastIo.prefetch) => ActsAsPrefetch(lastIo)

\* C3 amended: a call with prefetch=True and caching=False acts as a prefetch;
\* with caching=True (the default) the caching branch is taken first and the
\* call is a cached read that returns the requested bytes.
C3_PrefetchOnlyWhenNotCaching ==
    /\ (ioCount > 0 /\ lastIo.prefetch /\ ~lastIo.caching) => ActsAsPrefetch(lastIo)
    /\ (ioCount > 0 /\ lastIo.prefetch /\ lastIo.caching) =>
          /\ lastIo.data = DriverRead(lastIo.pos + baseAddress, lastIo.size)
          /\ \A k \in SeqRange(lastIo.calls) : k[2] = cacheLineSize

\* C3 witness: a prefetch of more than one line from an unaligned offset.
C3_Witness ==
    /\ ioCount > 0 /\ IsPrefetch(lastIo)
    /\ (lastIo.pos + baseAddress) % cacheLineSize # 0
    /\ lastIo.size % cacheLineSize # 0
    /\ lastIo.calls[1][2] = 2 * cacheLineSize
    /\ Cardinality(DOMAIN cache) >= 2

\* C4: after a prefetch, a cached read of any sub-range of the prefetched
\* block returns the bytes the same read returns from the cache as it was
\* before the prefetch, and makes no driver call.
C4_PrefetchEquivalence ==
    (lastPrefetch # NoIo) =>
        LET first == LineOf(lastPrefetch.pos + baseAddress)
            len   == RoundUp(lastPrefetch.size)
        IN  /\ \A a \in first..(first + len) : \A n \in 0..(first + len - a) :
                   (a >= baseAddress) =>
                       LET with    == ioRequest(cache, cacheLineSize, baseAddress,
                                                a - baseAddress, n, TRUE, FALSE)
                           without == ioRequest(lastPrefetch.before, cacheLineSize, baseAddress,
                                                a - baseAddress, n, TRUE, FALSE)
                       IN  with.calls = <<>> /\ with.data = without.data
            /\ (/\ IsCachedRead(lastIo)
                /\ lastIo.pos + baseAddress >= first
                /\ lastIo.pos + baseAddress + lastIo.size <= first + len)
               => lastIo.calls = <<>>

\* C4 witness: a prefetch of two lines into an empty cache followed by a
\* cached read that crosses the boundary between them.
C4_Witness ==
    /\ ioCount = 2 /\ lastPrefetch # NoIo /\ lastPrefetch.before = <<>>
    /\ RoundUp(lastPrefetch.size) = 2 * cacheLineSize
    /\ IsCachedRead(lastIo) /\ lastIo.calls = <<>>
    /\ Cardinality(SpannedLines(lastIo.pos + baseAddress, lastIo.size)) = 2

\* C5: a direct read makes exactly one driver call read(pos+baseAddress, size),
\* returns its result and leaves the cache as it was.
C5_DirectReadBypassesCache ==
    (ioCount > 0 /\ IsDirect(lastIo)) =>
        /\ lastIo.calls = << <<lastIo.pos + baseAddress, lastIo.size>> >>
        /\ lastIo.data = DriverRead(lastIo.pos + baseAddress, lastIo.size)
        /\ cache = lastIo.before

\* C5 witness: a direct read over a range with one line cached and one not.
C5_Witness ==
    /\ ioCount = 2 /\ IsDirect(lastIo)
    /\ lastIo.size > 0
    /\ Cardinality(DOMAIN cache) = 1
    /\ Cardinality(SpannedLines(lastIo.pos + baseAddress, lastIo.size)) = 2
    /\ cache = lastIo.before

\* ------------------------------------------------------------------ readDatasets properties
DistinctPaths(datasets) == {datasets[i].dataset : i \in DOMAIN datasets}

\* The last entry of the request list that names path p.
LastFor(datasets, p) ==
    datasets[CHOOSE i \in DOMAIN datasets :
                 /\ datasets[i].dataset = p
                 /\ \A j \in DOMAIN datasets : j > i => datasets[j].dataset # p]

\* The rows a request asks for: a str asks for every row from row 0.
RowsOf(request) ==
    IF request.isStr THEN <<0, ALL_ROWS>> ELSE <<request.startrow, request.numrows>>

StringOnly(datasets) == \A i \in DOMAIN datasets : datasets[i].isStr

\* C6: exactly one task and one result key per distinct path, the task of a
\* path given several times uses the last spec given for it, and the i-th
\* key is the path of the i-th task.
C6_DedupByPath ==
    (dsPc # "idle") =>
        LET paths == DistinctPaths(dsCall.datasets)
        IN  /\ Len(futures) = Cardinality(paths)
            /\ Len(promiseKeys) = Cardinality(paths)
            /\ max_workers = Cardinality(paths)
            /\ \A p \in paths :
                   /\ Cardinality({i \in DOMAIN futures : futures[i].task.dataset = p}) = 1
                   /\ Cardinality({i \in DOMAIN promiseKeys : promiseKeys[i] = p}) = 1
                   /\ \A i \in DOMAIN futures :
                          futures[i].task.dataset = p =>
                              <<futures[i].task.startrow, futures[i].task.numrows>>
                                  = RowsOf(LastFor(dsCall.datasets, p))
            /\ \A i \in DOMAIN promiseKeys : promiseKeys[i] = futures[i].task.dataset

\* C6 witness: three entries, the first and the last for the same path with
\* different rows, the last one a str.
C6_Witness ==
    /\ dsPc = "returned" /\ Len(dsCall.datasets) = 3
    /\ dsCall.datasets[1].dataset = dsCall.datasets[3].dataset
    /\ dsCall.datasets[2].dataset # dsCall.datasets[1].dataset
    /\ ~dsCall.datasets[1].isStr /\ dsCall.datasets[1].startrow = 1
    /\ dsCall.datasets[3].isStr
    /\ Len(futures) = 2
    /\ futures[1].task.numrows = ALL_ROWS

RunsWithRows(flags) ==
    (dsPc # "idle" /\ dsCall.defaults /\ StringOnly(dsCall.datasets)) =>
        \A i \in DOMAIN futures :
            /\ futures[i].task.startrow = 0
            /\ futures[i].task.numrows = ALL_ROWS
            /\ <<futures[i].task.earlyExit, futures[i].task.metaOnly,
                 futures[i].task.enableAttributes>> = flags

\* C10 as stated: string-only requests and no other argument run every task
\* from row 0 over all rows with early exit disabled, value decoding enabled
\* and attributes disabled.
C10_DefaultsNoEarlyExit == RunsWithRows(<<FALSE, FALSE, FALSE>>)

\* C10 amended: string-only requests and no other argument run every task
\* from row 0 over all rows with early exit ENABLED (EARLY_EXIT_DEFAULT is
\* True), value decoding enabled and attributes disabled.
C10_DefaultsEarlyExit == RunsWithRows(<<TRUE, FALSE, FALSE>>)

\* C10 witness: a default call with two distinct string requests.
C10_Witness ==
    /\ dsPc = "returned" /\ dsCall.defaults /\ StringOnly(dsCall.datasets)
    /\ Len(futures) = 2
    /\ futures[2].task.earlyExit /\ futures[2].task.numrows = ALL_ROWS

\* ------------------------------------------------------------------ listGroup properties
NameA == <<"a">>
NameB == <<"b">>

\* The table of the example: g/a and g/b variables, g/b/t an attribute of g/b.
ExampleTable == (PathGA :> FALSE) @@ (PathGB :> FALSE) @@ (PathGBT :> TRUE)

\* C8: with the records g/a (variable), g/b (variable) and g/b/t (attribute of
\* g/b) in the table, listing g returns the variables {a, b} and no attribute:
\* a record two segments below the group does not classify the first segment.
C8_ImmediateChildrenOnly ==
    (/\ lastList.outcome = "returned" /\ ~lastList.caught
     /\ Normal(lastList.group) = PathG
     /\ lastList.after = ExampleTable)
    => (lastList.variables = {NameA, NameB} /\ lastList.attributes = {})

C15_LinesAlignedAndImmutable ==
    /\ [](\A k \in DOMAIN cache :
             /\ k % cacheLineSize = 0
             /\ Len(cache[k]) = cacheLineSize
             /\ \A i \in 1..cacheLineSize : cache[k][i] = FileByte(k + i - 1))
    /\ [][\A k \in DOMAIN cache : k \in DOMAIN cache' /\ cache'[k] = cache[k]]_vars

\* C15 witness: a prefetch of two lines over a cache that already held one of them.
C15_Witness ==
    /\ ioCount = 2 /\ IsPrefetch(lastIo)
    /\ RoundUp(lastIo.size) = 2 * cacheLineSize
    /\ Cardinality(DOMAIN lastIo.before) = 1
    /\ DOMAIN lastIo.before \subseteq
           SpannedLines(LineOf(lastIo.pos + baseAddress), RoundUp(lastIo.size))
    /\ Cardinality(DOMAIN cache) = 2

\* C20: after a prefetch of (pos, size) with size > 0 every line spanned by
\* [pos+baseAddress, pos+baseAddress+size) is cached, so that a cached read of
\* (pos, size) makes no driver call.
C20_PrefetchCoversRequest ==
    (ioCount > 0 /\ IsPrefetch(lastIo) /\ lastIo.size > 0) =>
        /\ SpannedLines(lastIo.pos + baseAddress, lastIo.size) \subseteq DOMAIN cache
        /\ ioRequest(cache, cacheLineSize, baseAddress,
                     lastIo.pos, lastIo.size, TRUE, FALSE).calls = <<>>

\* ------------------------------------------------------------------ further listGroup properties
\* C17: every name listGroup reports is a non-empty first segment below the
\* group: some table path is group/name or starts with group/name/.
C17_SegmentBoundary ==
    (lastList.outcome = "returned" /\ ~lastList.caught) =>
        \A name \in lastList.variables \cup lastList.attributes :
            /\ name # <<>>
            /\ \A i \in DOMAIN name : name[i] # "/"
            /\ \E q \in DOMAIN lastList.after :
                   LET full == Normal(lastList.group) \o Slash \o name
                   IN  q = full \/ StartsWith(q, full \o Slash)

\* ------------------------------------------------------------------ concurrent ioRequest properties
Started(t) == tasks[t].pc # "idle"

\* Every line of the shared cache is complete and holds the driver's bytes.
CacheLinesValid ==
    \A k \in DOMAIN cache :
        /\ Len(cache[k]) = cacheLineSize
        /\ \A i \in 1..cacheLineSize : cache[k][i] = FileByte(k + i - 1)

\* The cached reads that have returned gave exactly the driver's bytes.
CachedResultsExact ==
    \A t \in TaskIds :
        (tasks[t].pc = "done" /\ tasks[t].caching) =>
            /\ Len(tasks[t].result) = tasks[t].size
            /\ \A i \in 1..tasks[t].size :
                   tasks[t].result[i] = FileByte(tasks[t].pos + baseAddress + i - 1)

\* C12: when the concurrent tasks issue cached reads, no cache line is fetched
\* from the driver more than once, in any interleaving.
C12_OneFetchUnderConcurrency ==
    (\A t \in TaskIds : Started(t) => tasks[t].caching) =>
        \A k \in DOMAIN driverCalls : driverCalls[k] <= 1

\* C14: in every interleaving of concurrent cached reads and prefetches a
\* cached read returns exactly the driver's bytes for its range, and no line
\* in the cache is ever wrong or partial; a race only repeats a fetch.
C14_RacesOnlyRepeatFetches == CacheLinesValid /\ CachedResultsExact

\* C14 witness: two cached reads over two lines each have returned after both
\* fetched the same line.
C14_Witness ==
    /\ \A t \in TaskIds : tasks[t].pc = "done" /\ tasks[t].caching /\ tasks[t].size >= 2
    /\ \E t \in TaskIds : Len(tasks[t].data_blocks) = 2
    /\ \E k \in DOMAIN driverCalls : driverCalls[k] = 2

\* C16: a driver failure ends the calling task with the error (ioRequest
\* returns nothing), in that step the cache gets no entry and no other task
\* changes; the lines cached before stay valid and the other tasks' cached
\* reads still return the driver's bytes.
C16_DriverFailureFailsOnlyItsTask ==
    /\ [][\A t \in TaskIds :
            (tasks[t].pc # "failed" /\ tasks'[t].pc = "failed") =>
                /\ tasks[t].pc \in {"fetch", "pf_read", "direct"}
                /\ cache' = cache
                /\ tasks'[t].result = NoData
                /\ \A u \in TaskIds \ {t} : tasks'[u] = tasks[u]]_vars
    /\ [][\A t \in TaskIds : tasks[t].pc = "failed" => tasks'[t] = tasks[t]]_vars
    /\ [](CacheLinesValid /\ CachedResultsExact)

\* C16 witness: a cached read failed on its second line after caching its
\* first; the other task then read across both lines and returned.
C16_Witness ==
    \E t, u \in TaskIds :
        /\ tasks[t].pc = "failed" /\ tasks[t].caching
        /\ Len(tasks[t].data_blocks) = 1
        /\ tasks[u].pc = "done" /\ tasks[u].caching
        /\ Len(tasks[u].data_blocks) = 2
        /\ tasks[u].pos = tasks[t].pos


\* ------------------------------------------------------------------ inspect properties
\* The scan of a call has ended, normally or on an error.
TopScanned == top.pc \in {"collect", "returned"} /\ top.g # <<>>

NestedScanned(i) == insp[i].scanned /\ insp[i].pc \in {"rd2", "rd2_wait", "done"}

\* The scan reported every name it owed for the table it started on.
Complete(expected, acc) ==
    /\ expected.variables \subseteq acc.variables
    /\ expected.attributes \subseteq acc.attributes

\* Every task that has been submitted and has not finished has a worker slot
\* of its own pool.
NoTaskWaits ==
    /\ Cardinality({i \in DOMAIN insp : insp[i].pc # "done"}) <= top.width
    /\ \A i \in DOMAIN insp :
          Cardinality({j \in DOMAIN insp[i].sub :
                          insp[i].sub[j].state \in {"pending", "running"}}) <= insp[i].subWidth

\* C11: listGroup with inspect that found at least one variable has run one
\* inspect task per variable in a pool as wide as the variable count and
\* returns a mapping whose keys are the variable names the scan found.
C11_InspectKeysAreVariableNames ==
    (top.pc = "returned" /\ top.w_inspect /\ ~top.scanError
        /\ Cardinality(top.acc.variables) > 0) =>
        /\ Len(insp) = Cardinality(top.acc.variables)
        /\ top.width = Cardinality(top.acc.variables)
        /\ top.variablesIsDict
        /\ top.variables = top.acc.variables

\* C13: no submitted task ever waits for a worker slot, and a listGroup call
\* that was entered returns with every inspect task it submitted complete and
\* every blocking readDatasets inside them returned.
C13_NoWaitNoDeadlock ==
    /\ [](NoTaskWaits)
    /\ (top.pc # "idle") ~>
          (top.pc = "returned" /\ \A i \in DOMAIN insp : insp[i].pc = "done")

\* C13 witness: a listGroup with inspect and attributes has returned after two
\* inspect tasks ran side by side, one of them through the nested listGroup
\* and the readDatasets on the attribute paths it found.
C13_Witness ==
    /\ top.pc = "returned" /\ top.w_inspect /\ top.w_attr
    /\ Len(insp) >= 2
    /\ top.collected = DOMAIN insp
    /\ \E i \in DOMAIN insp : insp[i].attributes # {} /\ insp[i].sub # <<>>

\* C18: the second component listGroup returns with inspect is the attribute
\* name set its scan found, the one it returns without inspect.
C18_AttributesSameWithInspect ==
    (top.pc = "returned" /\ top.w_inspect) => top.attributes = top.acc.attributes

\* C19: a scan that runs while other tasks of the handle insert records does
\* not fail and reports every child whose record was in the table when the
\* scan began.
C19_ScanSurvivesInserts ==
    /\ TopScanned => ~top.scanError /\ Complete(top.expected, top.acc)
    /\ \A i \in DOMAIN insp :
          NestedScanned(i) => ~insp[i].scanError /\ Complete(insp[i].expected, insp[i].acc)

====
